---- MODULE Spec2Model ----
(***************************************************************************)
(* The asynchronous video-analysis pipeline of backend/tasks/celery_tasks: *)
(* upload -> process_video_task -> analyze_video_task (re-checked through  *)
(* Celery retries) and the periodic cleanup_old_jobs sweep, all acting on  *)
(* the rows of the videos table.                                           *)
(*                                                                         *)
(* Names of tags and labels are integers: 2k is a lower-case string and    *)
(* 2k+1 the same string written with upper-case letters, so that           *)
(* str.lower() is a real conversion (Lower).  A Python list whose order    *)
(* the code leaves unspecified (list(set(...))) is a bag.                  *)
(***************************************************************************)
EXTENDS Bags, FiniteSets, Integers, Sequences, TLC

\* ------------------------------------------------------------------ bounds
\* video ids handled by the model
Videos == {"v1", "v2"}
\* number of labels in the largest label-detection payload
MaxLabels == 21
\* number of times the broker hands out the message of one re-check
MaxDeliveries == 2

\* ------------------------------------------------------- program constants
\* @celery_app.task(..., max_retries=10) / self.retry(max_retries=10)
MaxRetries == 10
\* if label_data['confidence'] > 80
ConfidenceThreshold == 80
\* list(set(...))[:20]
TagLimit == 20
\* MinConfidence=70 of start_label_detection
MinConfidence == 70
\* Text=text[:5000] of the three Comprehend calls
TextLimit == 5000

Kinds == {"label_detection", "face_detection", "content_moderation", "transcription"}

\* ---------------------------------------------------------------- messages
\* An exception, identified by its type and the operation that raised it;
\* retryWord tells whether its text, lower-cased, contains "retry".
Exc(type, op, retryWord) == [type |-> type, op |-> op, retryWord |-> retryWord]
NoExc == Exc("none", "", FALSE)
\* raise Exception(f"Video {video_id} not found")
NotFound == Exc("Exception", "Video not found", FALSE)
\* video is None: 'NoneType' object has no attribute 'detected_objects'
NoneTypeError == Exc("AttributeError", "NoneType.detected_objects", FALSE)
\* botocore ClientError re-raised by AWSService; status ERROR_RETRY is an
\* error whose text mentions "retry"
ClientError(op, status) == Exc("ClientError", op, status = "ERROR_RETRY")
\* celery.exceptions.Retry: "Retry in 30s"
RetryExc == Exc("Retry", "Retry in 30s", TRUE)
\* celery MaxRetriesExceededError: "Can't retry tasks.analyze_video[...]"
MaxRetriesExceededError == Exc("MaxRetriesExceededError", "Can't retry tasks.analyze_video", TRUE)

\* 'retry' in str(e).lower()
MentionsRetry(e) == e.retryWord

\* a value of the error_message column: prefix + str(e)
Message(prefix, e) == [prefix |-> prefix, text |-> e]
NoMessage == Message("", NoExc)
TimeoutMessage == Message("", Exc("text", "Processing timeout - please try uploading again", FALSE))

\* ------------------------------------------------------------------ values
\* a nullable column: NULL, or a value
Null(default) == [set |-> FALSE, val |-> default]
Val(x) == [set |-> TRUE, val |-> x]

NoLabels == [n \in {} |-> 0]

\* detected_objects holds NULL, the job handles (lines 118-125) or the labels
NullObjects == [type |-> "null", labels |-> NoLabels]
JobHandles == [type |-> "jobs", labels |-> NoLabels]
LabelDict(labels) == [type |-> "labels", labels |-> labels]

\* str.lower() on a name
Lower(n) == 2 * (n \div 2)

\* ------------------------------------------------------------------- state
VARIABLES
    requests,   \* upload requests still to arrive (ids are fresh uuid4 values)
    db,         \* videos table: db[v] is the set of rows with id v (none or one)
    procTask,   \* process_video_task of v: none, queued, started, done
    rechecks,   \* analyze_video_task messages and executions of v
    emitted,    \* what emit_status_update has published for v
    lastPoll,   \* job statuses seen by the current or last analyze execution
    lastRun,    \* how the last task execution for v ended
    sink        \* the notification sink (socketio): up, or down (emit raises)

vars == <<requests, db, procTask, rechecks, emitted, lastPoll, lastRun, sink>>

\* Video(...) as created by upload_video; the other columns are NULL
NewVideo(tags) ==
    [ status |-> "uploaded",
      processing_started_at |-> "NULL",
      processing_completed_at |-> "NULL",
      error_message |-> NoMessage,
      detected_objects |-> NullObjects,
      detected_faces |-> Null(<<>>),
      moderation_labels |-> Null(<<>>),
      transcript |-> Null(0),
      sentiment_analysis |-> Null(""),
      key_phrases |-> Null(<<>>),
      entities |-> Null(<<>>),
      tags |-> tags,
      categories |-> Null(EmptyBag) ]

\* db.query(Video).filter(Video.id == video_id).first()
Exists(v) == db[v] # {}
Row(v) == CHOOSE r \in db[v] : TRUE

NoEmits == [statuses |-> {}, progress |-> 0, nondecreasing |-> TRUE]
\* the text handed to detect_sentiment, detect_key_phrases and
\* detect_entities; -1 for a call that was not made
NlpTexts(sentiment, key_phrases, entities) ==
    [sentiment |-> sentiment, key_phrases |-> key_phrases, entities |-> entities]
NoPoll == [label |-> "NONE", face |-> "NONE", moderation |-> "NONE",
           transcription |-> "NONE", nlp |-> "NONE",
           transcript |-> 0, nlpText |-> NlpTexts(-1, -1, -1)]

\* the exception of a publish while the sink is down
SinkError == Exc("ConnectionError", "socketio.emit", FALSE)

\* variant of EmitRaises: the exception of the publish reaches the caller
EmitRaisesSinkError == IF sink = "down" THEN SinkError ELSE NoExc

\* lines 52 and 69-70: except Exception logs a warning, so that
\* emit_status_update lets no exception out to the task that calls it
EmitRaises == NoExc

\* emit_status_update(video_id, status, message, progress): published only
\* when the row exists (rows is the table content for the id) and the sink
\* takes it
Emit(em, rows, status, progress) ==
    IF rows = {} \/ sink = "down" THEN em
    ELSE [ statuses |-> em.statuses \cup {status},
           progress |-> progress,
           nondecreasing |-> em.nondecreasing /\ progress >= em.progress ]

\* emit_status_update(video_id, status, message): progress is None
EmitStatus(em, rows, status) ==
    IF rows = {} \/ sink = "down" THEN em
    ELSE [em EXCEPT !.statuses = @ \cup {status}]

RECURSIVE EmitAll(_, _, _, _)
EmitAll(em, rows, status, progresses) ==
    IF progresses = <<>> THEN em
    ELSE EmitAll(Emit(em, rows, status, Head(progresses)), rows, status, Tail(progresses))

\* ----------------------------------------------------------------- inputs
\* tags[] of the upload form: any list, duplicates and mixed case included
UserTagOptions ==
    { EmptyBag,
      SetToBag({1}) (+) SetToBag({0}) (+) SetToBag({0}),
      SetToBag({2 * k : k \in 0 .. TagLimit}) }

Init ==
    /\ requests = {"v1"}
    /\ db = [v \in Videos |-> {}]
    /\ procTask = [v \in Videos |-> "none"]
    /\ rechecks = [v \in Videos |-> <<>>]
    /\ emitted = [v \in Videos |-> NoEmits]
    /\ lastPoll = [v \in Videos |-> NoPoll]
    /\ lastRun = [v \in Videos |-> "none"]
    /\ sink = "up"

\* the sink goes down or comes back
SinkChange ==
    /\ sink' = IF sink = "up" THEN "down" ELSE "up"
    /\ UNCHANGED <<requests, db, procTask, rechecks, emitted, lastPoll, lastRun>>

\* upload_video: the row is committed with status 'uploaded', then
\* process_video_task.delay(id)
Upload(v, tags) ==
    /\ v \in requests
    /\ requests' = requests \ {v}
    /\ db' = [db EXCEPT ![v] = {NewVideo(tags)}]
    /\ procTask' = [procTask EXCEPT ![v] = "queued"]
    /\ UNCHANGED <<rechecks, emitted, lastPoll, lastRun, sink>>

\* delete_video: db.delete(video)
Delete(v) ==
    /\ Exists(v)
    /\ db' = [db EXCEPT ![v] = {}]
    /\ UNCHANGED <<requests, procTask, rechecks, emitted, lastPoll, lastRun, sink>>

\* ------------------------------------------------------ process_video_task
\* an analyze_video_task message: request.retries, and, once it executes,
\* the handles it read from the row
NewRecheck(retries) ==
    [retries |-> retries, pc |-> "scheduled", rekognition_jobs |-> {}, transcribe_job |-> FALSE]

\* variant of ApplyAsync: the first re-check is sent twice
ApplyAsyncTwice(queue) == Append(Append(queue, NewRecheck(0)), NewRecheck(0))

\* analyze_video_task.apply_async(args=[video_id], countdown=30)
ApplyAsync(queue) == Append(queue, NewRecheck(0))

\* variant of StartProcessing: the start time is not written
StartProcessingNoTimestamp(video) == [video EXCEPT !.status = "processing"]

\* video.status = 'processing'; video.processing_started_at = utcnow()
StartProcessing(video) ==
    [video EXCEPT !.status = "processing", !.processing_started_at = "recent"]

\* variant of StoreJobs: the handles are not written to the row
StoreJobsNothing(video) == video

\* video.detected_objects = {'rekognition_jobs': {...}, 'transcribe_job': ...}
StoreJobs(video) == [video EXCEPT !.detected_objects = JobHandles]

\* variant of FailProcessing: the completion time is not written
FailProcessingNoTimestamp(video, e) ==
    [video EXCEPT !.status = "failed", !.error_message = Message("", e)]

\* the except branch of process_video_task on an existing row
FailProcessing(video, e) ==
    [video EXCEPT !.status = "failed",
                  !.error_message = Message("", e),
                  !.processing_completed_at = "set"]

\* lines 84-93: the first transaction, then the 10% notification
ProcessStart(v) ==
    /\ procTask[v] = "queued"
    /\ IF ~Exists(v)
       THEN \* raise Exception("Video ... not found"); the handler finds no row
            /\ procTask' = [procTask EXCEPT ![v] = "done"]
            /\ lastRun' = [lastRun EXCEPT ![v] = "not_found"]
            /\ UNCHANGED <<db, emitted>>
       ELSE IF EmitRaises # NoExc
       THEN \* the notification of line 93 raises into the except branch
            /\ db' = [db EXCEPT ![v] = {FailProcessing(StartProcessing(Row(v)), EmitRaises)}]
            /\ procTask' = [procTask EXCEPT ![v] = "done"]
            /\ lastRun' = [lastRun EXCEPT ![v] = "submit_failed"]
            /\ UNCHANGED emitted
       ELSE /\ db' = [db EXCEPT ![v] = {StartProcessing(Row(v))}]
            /\ procTask' = [procTask EXCEPT ![v] = "started"]
            /\ emitted' = [emitted EXCEPT ![v] = Emit(@, db[v], "processing", 10)]
            /\ lastRun' = [lastRun EXCEPT ![v] = "started"]
    /\ UNCHANGED <<requests, rechecks, lastPoll, sink>>

\* the four submissions, in the order of lines 95-111, and the progress
\* notified after each
SubmitOrder == <<"label_detection", "face_detection", "content_moderation", "transcription">>
SubmitProgress == <<25, 35, 45, 55>>
SubmitErrors == {"ERROR", "ERROR_RETRY"}

\* number of submissions that returned before the one that raised
Submitted(failAt) ==
    IF failAt = "none" THEN Len(SubmitOrder)
    ELSE (CHOOSE k \in 1 .. Len(SubmitOrder) : SubmitOrder[k] = failAt) - 1

\* lines 95-156: submit the four jobs (failAt raises, "none" for no error),
\* store the handles, schedule the first re-check; any exception goes to the
\* except branch
ProcessSubmit(v, failAt, err) ==
    /\ procTask[v] = "started"
    /\ procTask' = [procTask EXCEPT ![v] = "done"]
    /\ LET em == EmitAll(emitted[v], db[v], "processing",
                         SubSeq(SubmitProgress, 1, Submitted(failAt)))
           e == IF failAt = SubmitOrder[1] THEN ClientError(failAt, err)
                ELSE IF EmitRaises # NoExc THEN EmitRaises
                ELSE IF failAt # "none" THEN ClientError(failAt, err)
                ELSE IF ~Exists(v) THEN NoneTypeError
                ELSE NoExc
       IN IF e = NoExc
          THEN /\ db' = [db EXCEPT ![v] = {StoreJobs(Row(v))}]
               /\ rechecks' = [rechecks EXCEPT ![v] = ApplyAsync(@)]
               /\ emitted' = [emitted EXCEPT ![v] = Emit(em, db[v], "processing", 65)]
               /\ lastRun' = [lastRun EXCEPT ![v] = "submitted"]
          ELSE /\ db' = [db EXCEPT ![v] = {FailProcessing(r, e) : r \in @}]
               /\ emitted' = [emitted EXCEPT ![v] = EmitStatus(em, db[v], "failed")]
               /\ lastRun' = [lastRun EXCEPT ![v] =
                                 IF e = NoneTypeError THEN "not_found" ELSE "submit_failed"]
               /\ UNCHANGED rechecks
    /\ UNCHANGED <<requests, lastPoll, sink>>

\* ------------------------------------------------------------ poll inputs
\* what the external services answer to one execution of analyze_video_task
SmallLabels == (1 :> 90) @@ (3 :> ConfidenceThreshold) @@ (5 :> MinConfidence + 5)
                 @@ (6 :> 95) @@ (7 :> 95)
ManyLabels == [n \in {2 * k + 1 : k \in 0 .. MaxLabels - 1} |-> 85]
\* as many labels, some of them names that differ only in letter case
\* ("Dog", "dog"): label_name is the key of the dict as the service spells it
MixedCaseLabels ==
    [n \in {2 * k + 1 : k \in 0 .. MaxLabels - 4} \cup {0, 2, 4} |-> 85]

ErrorStatuses == {"ERROR", "ERROR_RETRY"}

LabelPoll(status, labels) == [status |-> status, labels |-> labels]
FacePoll(status, faces) == [status |-> status, faces |-> faces]
ModerationPoll(status, labels) == [status |-> status, labels |-> labels]
TranscriptionPoll(status, transcript, nlp, entities) ==
    [status |-> status, transcript |-> transcript, nlp |-> nlp, entities |-> entities]

Entity(type) == [text |-> "x", type |-> type]
EntityOptions ==
    { <<Entity("PERSON"), Entity("PERSON"), Entity("DATE")>>,
      <<Entity("LOCATION"), Entity("ORGANIZATION")>> }

\* get_label_detection: JobStatus, and the labels when it SUCCEEDED
LabelPolls ==
    {LabelPoll(s, NoLabels) : s \in {"IN_PROGRESS", "FAILED"} \cup ErrorStatuses}
        \cup {LabelPoll("SUCCEEDED", l) : l \in {NoLabels, SmallLabels}}
\* get_face_detection / get_content_moderation: JobStatus, or an exception
FacePolls ==
    {FacePoll(s, <<>>) : s \in {"IN_PROGRESS", "FAILED", "ERROR"}}
        \cup {FacePoll("SUCCEEDED", <<"face">>)}
ModerationPolls ==
    {ModerationPoll(s, <<>>) : s \in {"IN_PROGRESS", "FAILED", "ERROR"}}
        \cup {ModerationPoll("SUCCEEDED", <<"violence">>)}
\* get_transcription_job: TranscriptionJobStatus, the transcript when
\* COMPLETED, and what the three Comprehend calls do with it.  A text is the
\* first n characters of what is said in the video and is written n.
TranscriptionPolls ==
    {TranscriptionPoll(s, 0, "ok", <<>>) : s \in {"IN_PROGRESS", "FAILED"} \cup ErrorStatuses}
        \cup {TranscriptionPoll("COMPLETED", 0, "ok", <<>>)}
        \cup {TranscriptionPoll("COMPLETED", 11, "ok", e) : e \in EntityOptions}
        \cup {TranscriptionPoll("COMPLETED", 11, s, <<>>) : s \in ErrorStatuses}

PollInput(label, face, moderation, transcription) ==
    [label |-> label, face |-> face, moderation |-> moderation, transcription |-> transcription]

\* every combination of answers with small payloads
SmallPollInputs ==
    {PollInput(l, f, m, t) :
        l \in LabelPolls, f \in FacePolls, m \in ModerationPolls, t \in TranscriptionPolls}

\* three answers: every job running, every job done, the label poll raising
TinyPollInputs ==
    { PollInput(LabelPoll("IN_PROGRESS", NoLabels), FacePoll("IN_PROGRESS", <<>>),
                ModerationPoll("IN_PROGRESS", <<>>),
                TranscriptionPoll("IN_PROGRESS", 0, "ok", <<>>)),
      PollInput(LabelPoll("SUCCEEDED", SmallLabels), FacePoll("SUCCEEDED", <<"face">>),
                ModerationPoll("SUCCEEDED", <<"violence">>),
                TranscriptionPoll("COMPLETED", 0, "ok", <<>>)),
      PollInput(LabelPoll("ERROR", NoLabels), FacePoll("IN_PROGRESS", <<>>),
                ModerationPoll("IN_PROGRESS", <<>>),
                TranscriptionPoll("IN_PROGRESS", 0, "ok", <<>>)) }

\* the same, and the largest label payloads with the other three jobs done
PollInputs ==
    SmallPollInputs
    \cup {PollInput(LabelPoll("SUCCEEDED", l), FacePoll("SUCCEEDED", <<"face">>),
                    ModerationPoll("SUCCEEDED", <<"violence">>),
                    TranscriptionPoll("COMPLETED", 0, "ok", <<>>)) :
             l \in {ManyLabels, MixedCaseLabels}}
    \cup {PollInput(LabelPoll("SUCCEEDED", NoLabels), FacePoll("SUCCEEDED", <<"face">>),
                    ModerationPoll("SUCCEEDED", <<"violence">>),
                    TranscriptionPoll("COMPLETED", n, "ok", <<>>)) :
             n \in {TextLimit, TextLimit + 1}}

\* ------------------------------------------------------ analyze_video_task
\* lines 169-171: the handles the execution reads from detected_objects
ReadJobs(task, video) ==
    [task EXCEPT !.pc = "running",
                 !.rekognition_jobs =
                     IF video.detected_objects.type = "jobs"
                     THEN {"label_detection", "face_detection", "content_moderation"}
                     ELSE {},
                 !.transcribe_job = (video.detected_objects.type = "jobs")]

\* lines 177-185: get_label_detection_results raises, or is not 'completed'
LabelPolled(task) == "label_detection" \in task.rekognition_jobs
LabelRaises(task, in) == LabelPolled(task) /\ in.label.status \in ErrorStatuses
LabelPending(task, in) == LabelPolled(task) /\ in.label.status # "SUCCEEDED"

\* lines 188-200: only IN_PROGRESS keeps the re-check waiting
FacePolled(task) == "face_detection" \in task.rekognition_jobs
\* variant of FacePending: every status but SUCCEEDED keeps the re-check waiting
FacePendingUnlessSucceeded(task, in) == FacePolled(task) /\ in.face.status # "SUCCEEDED"

\* variant of FacePending: a poll that raises keeps the re-check waiting
FacePendingOnError(task, in) ==
    FacePolled(task) /\ in.face.status \in {"IN_PROGRESS", "ERROR"}

FacePending(task, in) == FacePolled(task) /\ in.face.status = "IN_PROGRESS"

\* lines 203-215
ModerationPolled(task) == "content_moderation" \in task.rekognition_jobs
ModerationPending(task, in) == ModerationPolled(task) /\ in.moderation.status = "IN_PROGRESS"

\* lines 218-241
TranscriptionPolled(task, in) == task.transcribe_job /\ ~LabelRaises(task, in)
TranscriptionRaises(task, in) ==
    TranscriptionPolled(task, in) /\ in.transcription.status \in ErrorStatuses
TranscriptionDone(task, in) ==
    TranscriptionPolled(task, in) /\ in.transcription.status = "COMPLETED"
\* variant of TranscriptionPending: a FAILED transcription is tolerated like a
\* FAILED face detection
TranscriptionPendingInProgressOnly(task, in) ==
    TranscriptionPolled(task, in) /\ in.transcription.status \in {"IN_PROGRESS", "QUEUED"}

TranscriptionPending(task, in) ==
    TranscriptionPolled(task, in) /\ in.transcription.status # "COMPLETED"
\* if results['transcript']: the three Comprehend calls
NlpRuns(task, in) == TranscriptionDone(task, in) /\ in.transcription.transcript > 0
NlpRaises(task, in) == NlpRuns(task, in) /\ in.transcription.nlp \in ErrorStatuses

\* variant of ComprehendText: the whole text is sent
ComprehendTextWhole(text) == text

\* Text=text[:5000]: the first 5000 characters, the whole text if shorter
ComprehendText(text) == IF text > TextLimit THEN TextLimit ELSE text

\* variant of AllComplete: a pending transcription does not hold the merge
AllCompleteWithoutTranscription(task, in) ==
    /\ ~LabelPending(task, in)
    /\ ~FacePending(task, in)
    /\ ~ModerationPending(task, in)

\* all_complete after the four checks
AllComplete(task, in) ==
    /\ ~LabelPending(task, in)
    /\ ~FacePending(task, in)
    /\ ~ModerationPending(task, in)
    /\ ~TranscriptionPending(task, in)

\* the exception that leaves the polling part of the try block, if any
PollException(task, in) ==
    IF LabelRaises(task, in) THEN ClientError("label_detection", in.label.status)
    ELSE IF TranscriptionRaises(task, in)
         THEN ClientError("transcription", in.transcription.status)
    ELSE IF NlpRaises(task, in) THEN ClientError("comprehend", in.transcription.nlp)
    ELSE NoExc

\* the results dict, read through results.get(key, default)
Results(task, in) ==
    [ labels |-> IF LabelPolled(task) /\ in.label.status = "SUCCEEDED"
                 THEN in.label.labels ELSE NoLabels,
      faces |-> IF FacePolled(task) /\ in.face.status = "SUCCEEDED"
                THEN in.face.faces ELSE <<>>,
      moderation |-> IF ModerationPolled(task) /\ in.moderation.status = "SUCCEEDED"
                     THEN in.moderation.labels ELSE <<>>,
      transcript |-> IF TranscriptionDone(task, in) THEN in.transcription.transcript ELSE 0,
      sentiment |-> IF NlpRuns(task, in) THEN "POSITIVE" ELSE "",
      key_phrases |-> IF NlpRuns(task, in) THEN <<"phrase">> ELSE <<>>,
      entities |-> IF NlpRuns(task, in) THEN in.transcription.entities ELSE <<>> ]

\* the statuses the execution saw (history)
Observed(task, in) ==
    [ label |-> IF LabelPolled(task) THEN in.label.status ELSE "NOT_POLLED",
      face |-> IF FacePolled(task) /\ ~LabelRaises(task, in)
               THEN in.face.status ELSE "NOT_POLLED",
      moderation |-> IF ModerationPolled(task) /\ ~LabelRaises(task, in)
                     THEN in.moderation.status ELSE "NOT_POLLED",
      transcription |-> IF TranscriptionPolled(task, in)
                        THEN in.transcription.status ELSE "NOT_POLLED",
      nlp |-> IF NlpRuns(task, in) THEN in.transcription.nlp ELSE "NOT_RUN",
      transcript |-> IF TranscriptionDone(task, in) THEN in.transcription.transcript ELSE 0,
      nlpText |-> IF NlpRuns(task, in) /\ ~NlpRaises(task, in)
                  THEN NlpTexts(ComprehendText(in.transcription.transcript),
                                ComprehendText(in.transcription.transcript),
                                ComprehendText(in.transcription.transcript))
                  ELSE NlpTexts(-1, -1, -1) ]

\* ------------------------------------------------------------------ merge
\* the k-element subsets of S
RECURSIVE KSubsets(_, _)
KSubsets(S, k) ==
    IF k = 0 THEN {{}}
    ELSE IF Cardinality(S) < k THEN {}
    ELSE LET x == CHOOSE y \in S : TRUE
         IN KSubsets(S \ {x}, k) \cup {T \cup {x} : T \in KSubsets(S \ {x}, k - 1)}

\* list(S)[:n] for a set S: the order of a set is unspecified, so any n of
\* its elements may be the first n
FirstOfSet(S, n) ==
    IF Cardinality(S) <= n THEN {S}
    ELSE {S \ D : D \in KSubsets(S, Cardinality(S) - n)}

\* variant of AdditionalTags: the threshold itself passes
AdditionalTagsFromThreshold(labels) ==
    LET high == {n \in DOMAIN labels : labels[n] >= ConfidenceThreshold}
    IN [t \in {Lower(n) : n \in high} |-> Cardinality({n \in high : Lower(n) = t})]

\* lines 264-266: the lower-cased names of the labels above the threshold
AdditionalTags(labels) ==
    LET high == {n \in DOMAIN labels : labels[n] > ConfidenceThreshold}
    IN [t \in {Lower(n) : n \in high} |-> Cardinality({n \in high : Lower(n) = t})]

\* variant of MergeTags: the [:20] slice is missing
MergeTagsUnlimited(tags, additional) == {SetToBag(BagToSet(tags (+) additional))}

\* variant of MergeTags: the slice stops one entry early
MergeTagsOffByOne(tags, additional) ==
    {SetToBag(S) : S \in FirstOfSet(BagToSet(tags (+) additional), TagLimit - 1)}

\* variant of MergeTags: the tags the row had are not part of the list
MergeTagsLabelsOnly(tags, additional) ==
    {SetToBag(S) : S \in FirstOfSet(BagToSet(additional), TagLimit)}

\* line 274: list(set(video.tags + additional_tags))[:20], every list it may be
MergeTags(tags, additional) ==
    {SetToBag(S) : S \in FirstOfSet(BagToSet(tags (+) additional), TagLimit)}

\* entity['type'].lower()
LowerType(type) ==
    CASE type = "PERSON" -> "person"
      [] type = "LOCATION" -> "location"
      [] type = "ORGANIZATION" -> "organization"
      [] OTHER -> "other"

\* variant of Categories: the list is stored without set()
CategoriesWithDuplicates(entities) ==
    LET kept == {j \in DOMAIN entities :
                    entities[j].type \in {"PERSON", "LOCATION", "ORGANIZATION"}}
    IN [c \in {LowerType(entities[j].type) : j \in kept} |->
           Cardinality({j \in kept : LowerType(entities[j].type) = c})]

\* lines 269-271 and 275: list(set(categories))
Categories(entities) ==
    SetToBag({LowerType(entities[i].type) : i \in
                {j \in DOMAIN entities :
                    entities[j].type \in {"PERSON", "LOCATION", "ORGANIZATION"}}})

\* variant of Complete: the status is not written
CompleteKeepsStatus(video, results, tags) ==
    [video EXCEPT !.detected_objects = LabelDict(results.labels),
                  !.detected_faces = Val(results.faces),
                  !.moderation_labels = Val(results.moderation),
                  !.transcript = Val(results.transcript),
                  !.sentiment_analysis = Val(results.sentiment),
                  !.key_phrases = Val(results.key_phrases),
                  !.entities = Val(results.entities),
                  !.tags = tags,
                  !.categories = Val(Categories(results.entities)),
                  !.processing_completed_at = "set",
                  !.error_message = NoMessage]

\* variant of Complete: a result that is missing leaves the column as it was
CompleteKeepsMissing(video, results, tags) ==
    [video EXCEPT !.detected_objects =
                      IF results.labels = NoLabels THEN @ ELSE LabelDict(results.labels),
                  !.detected_faces = IF results.faces = <<>> THEN @ ELSE Val(results.faces),
                  !.moderation_labels =
                      IF results.moderation = <<>> THEN @ ELSE Val(results.moderation),
                  !.transcript = IF results.transcript = 0 THEN @ ELSE Val(results.transcript),
                  !.sentiment_analysis = Val(results.sentiment),
                  !.key_phrases = Val(results.key_phrases),
                  !.entities = Val(results.entities),
                  !.tags = tags,
                  !.categories = Val(Categories(results.entities)),
                  !.status = "completed",
                  !.processing_completed_at = "set",
                  !.error_message = NoMessage]

\* variant of Complete: the notification is sent but the row is not written
CompleteNotCommitted(video, results, tags) == video

\* lines 251-280: the row written by the completing branch, tags being one
\* of MergeTags
Complete(video, results, tags) ==
    [video EXCEPT !.detected_objects = LabelDict(results.labels),
                  !.detected_faces = Val(results.faces),
                  !.moderation_labels = Val(results.moderation),
                  !.transcript = Val(results.transcript),
                  !.sentiment_analysis = Val(results.sentiment),
                  !.key_phrases = Val(results.key_phrases),
                  !.entities = Val(results.entities),
                  !.tags = tags,
                  !.categories = Val(Categories(results.entities)),
                  !.status = "completed",
                  !.processing_completed_at = "set",
                  !.error_message = NoMessage]

\* variant of FailAnalysis: the error text is not written
FailAnalysisNoMessage(video, e) ==
    [video EXCEPT !.status = "failed", !.processing_completed_at = "set"]

\* variant of FailAnalysis: the job handles are discarded with the failure
FailAnalysisClearsJobs(video, e) ==
    [video EXCEPT !.status = "failed",
                  !.error_message = Message("Analysis failed: ", e),
                  !.processing_completed_at = "set",
                  !.detected_objects = NullObjects]

\* lines 307-313: the except branch of analyze_video_task on an existing row
FailAnalysis(video, e) ==
    [video EXCEPT !.status = "failed",
                  !.error_message = Message("Analysis failed: ", e),
                  !.processing_completed_at = "set"]

\* variant of RetryException: the retries are not limited
RetryExceptionNoLimit(task) == RetryExc

\* self.retry(countdown=30, max_retries=10): Retry while the retries left
\* allow it, MaxRetriesExceededError afterwards
RetryException(task) ==
    IF task.retries + 1 > MaxRetries THEN MaxRetriesExceededError ELSE RetryExc

\* how an execution that ended with exception e is recorded
Outcome(e) ==
    IF e = RetryExc THEN "retry"
    ELSE IF e = MaxRetriesExceededError THEN "exhausted"
    ELSE IF MentionsRetry(e) THEN "reraised"
    ELSE IF e = NotFound THEN "not_found"
    ELSE "failed"

RemoveAt(queue, i) == SubSeq(queue, 1, i - 1) \o SubSeq(queue, i + 1, Len(queue))

\* variant of AfterException: the message is sent again after any exception
AfterExceptionAlwaysRetry(queue, i, e) ==
    [queue EXCEPT ![i] = NewRecheck(queue[i].retries + 1)]

\* the task queue after execution i ended with exception e: Celery sends
\* the message again, with one more retry, for Retry alone
AfterException(queue, i, e) ==
    IF e = RetryExc THEN [queue EXCEPT ![i] = NewRecheck(queue[i].retries + 1)]
    ELSE RemoveAt(queue, i)

\* variant of HandleException: the row is looked up without the id filter
HandleExceptionAllRows(v, i, e, em) ==
    /\ rechecks' = [rechecks EXCEPT ![v] = AfterException(@, i, e)]
    /\ lastRun' = [lastRun EXCEPT ![v] = Outcome(e)]
    /\ IF MentionsRetry(e)
       THEN /\ emitted' = [emitted EXCEPT ![v] = em]
            /\ UNCHANGED db
       ELSE /\ db' = [w \in Videos |-> {FailAnalysis(r, e) : r \in db[w]}]
            /\ emitted' = [emitted EXCEPT ![v] = EmitStatus(em, db[v], "failed")]

\* variant of HandleException: the test of line 301 is missing, the retry
\* signal is handled like an error
HandleExceptionFailsOnRetry(v, i, e, em) ==
    /\ rechecks' = [rechecks EXCEPT ![v] = AfterException(@, i, e)]
    /\ lastRun' = [lastRun EXCEPT ![v] = Outcome(e)]
    /\ db' = [db EXCEPT ![v] = {FailAnalysis(r, e) : r \in @}]
    /\ emitted' = [emitted EXCEPT ![v] = EmitStatus(em, db[v], "failed")]

\* lines 300-317: except Exception as e, after the notifications em
HandleException(v, i, e, em) ==
    /\ rechecks' = [rechecks EXCEPT ![v] = AfterException(@, i, e)]
    /\ lastRun' = [lastRun EXCEPT ![v] = Outcome(e)]
    /\ IF MentionsRetry(e)
       THEN /\ emitted' = [emitted EXCEPT ![v] = em]
            /\ UNCHANGED db
       ELSE /\ db' = [db EXCEPT ![v] = {FailAnalysis(r, e) : r \in @}]
            /\ emitted' = [emitted EXCEPT ![v] = EmitStatus(em, db[v], "failed")]

\* lines 163-171: a scheduled re-check starts and reads the row
AnalyzeBegin(v, i) ==
    /\ i \in DOMAIN rechecks[v]
    /\ rechecks[v][i].pc = "scheduled"
    /\ lastPoll' = [lastPoll EXCEPT ![v] = NoPoll]
    /\ IF ~Exists(v)
       THEN HandleException(v, i, NotFound, emitted[v])
       ELSE /\ rechecks' = [rechecks EXCEPT ![v][i] = ReadJobs(@, Row(v))]
            /\ lastRun' = [lastRun EXCEPT ![v] = "polling"]
            /\ UNCHANGED <<db, emitted>>
    /\ UNCHANGED <<requests, procTask, sink>>

\* lines 173-298: the four checks, then the completing branch or the retry
AnalyzeFinish(v, i, in) ==
    /\ i \in DOMAIN rechecks[v]
    /\ rechecks[v][i].pc = "running"
    /\ LET task == rechecks[v][i]
           em85 == IF NlpRuns(task, in)
                   THEN Emit(emitted[v], db[v], "processing", 85) ELSE emitted[v]
       IN /\ lastPoll' = [lastPoll EXCEPT ![v] = Observed(task, in)]
          /\ IF PollException(task, in) # NoExc
             THEN HandleException(v, i, PollException(task, in), em85)
             ELSE IF EmitRaises # NoExc
             THEN \* the notification of line 245 or of line 296 raises
                  HandleException(v, i, EmitRaises, em85)
             ELSE IF AllComplete(task, in)
             THEN LET em95 == Emit(em85, db[v], "processing", 95)
                  IN IF ~Exists(v)
                     THEN HandleException(v, i, NoneTypeError, em95)
                     ELSE /\ \E tags \in MergeTags(Row(v).tags,
                                                   AdditionalTags(Results(task, in).labels)) :
                               db' = [db EXCEPT ![v] =
                                        {Complete(Row(v), Results(task, in), tags)}]
                          /\ emitted' = [emitted EXCEPT ![v] =
                                            Emit(em95, db[v], "completed", 100)]
                          /\ rechecks' = [rechecks EXCEPT ![v] = RemoveAt(@, i)]
                          /\ lastRun' = [lastRun EXCEPT ![v] = "completed"]
             ELSE HandleException(v, i, RetryException(task),
                                  Emit(em85, db[v], "processing", 75))
    /\ UNCHANGED <<requests, procTask, sink>>

\* ------------------------------------------------------- cleanup_old_jobs
\* variant of Stuck: the filter on processing_started_at is missing
StuckWhateverStart(video) == video.status = "processing"

\* Video.status == 'processing', Video.processing_started_at < cutoff_time
Stuck(video) == video.status = "processing" /\ video.processing_started_at = "old"

\* variant of TimeoutVideo: the status is left as it was
TimeoutVideoKeepsStatus(video) ==
    [video EXCEPT !.error_message = TimeoutMessage, !.processing_completed_at = "set"]

\* variant of TimeoutVideo: the error message is not written
TimeoutVideoNoMessage(video) ==
    [video EXCEPT !.status = "failed", !.processing_completed_at = "set"]

\* lines 336-338
TimeoutVideo(video) ==
    [video EXCEPT !.status = "failed",
                  !.error_message = TimeoutMessage,
                  !.processing_completed_at = "set"]

\* one run of the periodic sweep
CleanupOldJobs ==
    /\ db' = [v \in Videos |->
                {IF Stuck(r) THEN TimeoutVideo(r) ELSE r : r \in db[v]}]
    /\ emitted' = [v \in Videos |->
                     IF \E r \in db[v] : Stuck(r)
                     THEN EmitStatus(emitted[v], db[v], "failed") ELSE emitted[v]]
    /\ UNCHANGED <<requests, procTask, rechecks, lastPoll, lastRun, sink>>

\* time passes: the start of a video still in processing becomes older than
\* the two hours of the sweep's cutoff
Tick(v) ==
    /\ Exists(v)
    /\ Row(v).status = "processing"
    /\ Row(v).processing_started_at = "recent"
    /\ db' = [db EXCEPT ![v] = {[Row(v) EXCEPT !.processing_started_at = "old"]}]
    /\ UNCHANGED <<requests, procTask, rechecks, emitted, lastPoll, lastRun, sink>>

\* ----------------------------------------------------------- specification
\* one step of the system, the users drawing their tag lists from tagOptions
\* and the external services their answers from inputs
Step(tagOptions, inputs) ==
    \/ \E v \in requests, tags \in tagOptions : Upload(v, tags)
    \/ \E v \in Videos : Delete(v)
    \/ \E v \in Videos : ProcessStart(v)
    \/ \E v \in Videos :
          /\ procTask[v] = "started"
          /\ \E failAt \in Kinds \cup {"none"}, err \in SubmitErrors :
                ProcessSubmit(v, failAt, err)
    \/ \E v \in Videos : \E i \in DOMAIN rechecks[v] : AnalyzeBegin(v, i)
    \/ \E v \in Videos : \E i \in DOMAIN rechecks[v] :
          /\ rechecks[v][i].pc = "running"
          /\ \E in \in inputs : AnalyzeFinish(v, i, in)
    \/ CleanupOldJobs
    \/ \E v \in Videos : Tick(v)

Next == Step(UserTagOptions, PollInputs)

Spec == Init /\ [][Next]_vars

\* The beat scheduler keeps running the sweep (beat_schedule, every 300 s)
\* and time passes.  Nothing is assumed of the workers, of the external
\* services or of the users.
Fairness ==
    /\ \A v \in Videos : WF_vars(Tick(v))
    /\ WF_vars(CleanupOldJobs)

\* for progress properties the tag lists and payloads do not matter: users
\* upload without tags and the services answer with the small payloads
LiveNext == Step({EmptyBag}, SmallPollInputs)

FairSpec == Init /\ [][LiveNext]_vars /\ Fairness

\* two uploads whose pipelines run side by side, the services answering
\* with one of three answers
InitTwo ==
    /\ requests = Videos
    /\ db = [v \in Videos |-> {}]
    /\ procTask = [v \in Videos |-> "none"]
    /\ rechecks = [v \in Videos |-> <<>>]
    /\ emitted = [v \in Videos |-> NoEmits]
    /\ lastPoll = [v \in Videos |-> NoPoll]
    /\ lastRun = [v \in Videos |-> "none"]
    /\ sink = "up"

TwoNext == Step({EmptyBag}, TinyPollInputs)

TwoSpec == InitTwo /\ [][TwoNext]_vars

\* the same system with a notification sink that fails and recovers at any
\* moment
SinkNext == Step({EmptyBag}, SmallPollInputs) \/ SinkChange

SinkSpec == Init /\ [][SinkNext]_vars

\* the transcription job has failed for good: get_transcription_job answers
\* FAILED at every poll, the other services as before
FailedTranscriptionInputs ==
    {in \in SmallPollInputs : in.transcription.status = "FAILED"}

FailedTranscriptionNext == Step({EmptyBag}, FailedTranscriptionInputs)

FailedTranscriptionSpec == Init /\ [][FailedTranscriptionNext]_vars /\ Fairness

\* The broker (Redis, line 21) delivers at least once: the message of a
\* re-check, which the worker holds unacknowledged until its countdown has
\* passed, is handed out a second time
Redeliver(v) ==
    /\ Len(rechecks[v]) < MaxDeliveries
    /\ \E i \in DOMAIN rechecks[v] :
          /\ rechecks[v][i].pc = "scheduled"
          /\ rechecks' = [rechecks EXCEPT ![v] = Append(@, rechecks[v][i])]
    /\ UNCHANGED <<requests, db, procTask, emitted, lastPoll, lastRun, sink>>

\* the same system with such a broker, the services answering with one of
\* three answers
RedeliverNext == Step({EmptyBag}, TinyPollInputs) \/ \E v \in Videos : Redeliver(v)

RedeliverSpec == Init /\ [][RedeliverNext]_vars

\* ------------------------------------------------------------------ claims
Terminal == {"completed", "failed"}
Processing(v) == \E r \in db[v] : r.status = "processing"

\* the edges of the status transition table
StatusEdges ==
    { <<"uploaded", "processing">>, <<"processing", "processing">>,
      <<"processing", "completed">>, <<"processing", "failed">> }

\* C1: the status of a video changes only along uploaded->processing,
\* processing->processing, processing->completed, processing->failed; so no
\* video is seen both completed and failed.
C1_StatusEdgesOnly ==
    [][\A v \in Videos : \A r \in db[v] : \A s \in db'[v] :
         r.status # s.status => <<r.status, s.status>> \in StatusEdges]_vars

\* an error message that tells a timeout
TimeoutShaped(m) ==
    m = TimeoutMessage \/ m.text.type \in {"MaxRetriesExceededError", "TimeoutError"}

\* C2: once the re-check budget is exhausted with jobs still pending, the
\* video is failed with a timeout-shaped error message and its stored job
\* handles are cleared.
C2_ExhaustedBudgetFails ==
    \A v \in Videos : \A r \in db[v] :
        lastRun[v] = "exhausted" =>
            /\ r.status = "failed"
            /\ TimeoutShaped(r.error_message)
            /\ r.detected_objects.type # "jobs"

\* C3 (as stated): every video that enters processing eventually reaches
\* completed or failed.
C3_EventuallyTerminalOriginal ==
    \A v \in Videos : Processing(v) ~> (\E r \in db[v] : r.status \in Terminal)

\* C3 (amended): every video that enters processing eventually reaches
\* completed or failed, unless its row is deleted first.
C3_EventuallyTerminal ==
    \A v \in Videos : Processing(v) ~> (\A r \in db[v] : r.status \in Terminal)

\* C3 witness: a video whose re-checks ran out of retries while it was
\* processing has been brought to failed by the sweep.
C3_Witness ==
    \E v \in Videos : \E r \in db[v] :
        lastRun[v] = "exhausted" /\ r.status = "failed" /\ r.error_message = TimeoutMessage

\* C4: at every moment a video has at most one re-check, scheduled or running.
C4_SingleFlight == \A v \in Videos : Len(rechecks[v]) <= 1

\* C4 witness: the one re-check of a video is running as its last retry.
C4_Witness ==
    \E v \in Videos :
        /\ Len(rechecks[v]) = 1
        /\ rechecks[v][1].pc = "running"
        /\ rechecks[v][1].retries = MaxRetries

\* C5: once a video is completed or failed no automated action changes its
\* row again; in particular a re-check still scheduled or running for a
\* video the sweep has failed leaves the row as it is (a user may delete it).
C5_TerminalRowsFrozen ==
    [][\A v \in Videos : \A r \in db[v] :
         (r.status \in Terminal /\ rechecks[v] # <<>>) => db'[v] \subseteq {r}]_vars

\* the execution polled every job to an end without any exception
NoErrorSeen(poll) ==
    /\ poll.label \in {"SUCCEEDED", "FAILED"}
    /\ poll.face \in {"SUCCEEDED", "FAILED"}
    /\ poll.moderation \in {"SUCCEEDED", "FAILED"}
    /\ poll.transcription = "COMPLETED"
    /\ poll.nlp \in {"ok", "NOT_RUN"}

FaceFailedOnly(poll) ==
    /\ NoErrorSeen(poll)
    /\ poll.face = "FAILED"
    /\ poll.label = "SUCCEEDED"
    /\ poll.moderation = "SUCCEEDED"

\* C6: when a re-check sees face detection FAILED while label detection,
\* content moderation and transcription (with the analysis of its text)
\* succeed, the video is completed and its detected_faces is the empty list.
C6_FaceFailureTolerated ==
    \A v \in Videos : \A r \in db[v] :
        FaceFailedOnly(lastPoll[v]) =>
            r.status = "completed" /\ r.detected_faces = Val(<<>>)

\* C6 witness: such a re-check has completed a video.
C6_Witness ==
    \E v \in Videos : \E r \in db[v] :
        /\ FaceFailedOnly(lastPoll[v])
        /\ lastRun[v] = "completed"
        /\ r.status = "completed"
        /\ r.transcript.val > 0

\* C7: a definitive failure of label detection, face detection or content
\* moderation is tolerated: a re-check that sees each of these three
\* SUCCEEDED or FAILED, and transcription done, completes the video.
C7_NonCriticalFailureTolerated ==
    \A v \in Videos : \A r \in db[v] :
        NoErrorSeen(lastPoll[v]) => r.status = "completed"

\* C8: a service error makes the video failed only when its kind is
\* transcription (its text analysis included), and then it always does.
C8_OnlyTranscriptionErrorsFatal ==
    \A v \in Videos : \A r \in db[v] :
        /\ (r.status = "failed" /\ r.error_message.text.type = "ClientError")
               => r.error_message.text.op \in {"transcription", "comprehend"}
        /\ lastPoll[v].transcription \in ErrorStatuses => r.status = "failed"

\* the ways a run ends fatally: missing row, fatal error, budget exhausted
FatalOutcomes == {"not_found", "submit_failed", "failed", "exhausted"}

\* C9: a step that ends a video's run fatally leaves a row with a non-empty
\* error_message and has published a notification with status failed.
C9_FatalOutcomeReported ==
    [][\A v \in Videos :
         (lastRun'[v] \in FatalOutcomes /\ lastRun'[v] # lastRun[v]) =>
            /\ db'[v] # {}
            /\ \A r \in db'[v] : r.error_message # NoMessage
            /\ "failed" \in emitted'[v].statuses]_vars

\* C10: after a merge the tags of the video are at most 20 and no tag
\* occurs twice.
C10_TagsBoundedDistinct ==
    \A v \in Videos : \A r \in db[v] :
        r.status = "completed" =>
            /\ BagCardinality(r.tags) <= TagLimit
            /\ \A t \in BagToSet(r.tags) : CopiesIn(t, r.tags) = 1

\* C10 witness: a merge of more than 20 distinct tags and labels has kept 20.
C10_Witness ==
    \E v \in Videos : \E r \in db[v] :
        /\ r.status = "completed"
        /\ Cardinality(DOMAIN r.detected_objects.labels) > TagLimit
        /\ BagCardinality(r.tags) = TagLimit

\* the labels of a stored label dict that pass the confidence threshold
HighLabels(labels) == {n \in DOMAIN labels : labels[n] > ConfidenceThreshold}

\* C11 (as stated): when more than 20 labels pass the threshold, the merged
\* tags are exactly 20, whatever the names of the labels.
C11_ExactlyTwentyOriginal ==
    \A v \in Videos : \A r \in db[v] :
        (r.status = "completed" /\ Cardinality(HighLabels(r.detected_objects.labels)) > TagLimit)
            => BagCardinality(r.tags) = TagLimit

\* C11 (amended): when the labels that pass the threshold have more than 20
\* different lower-cased names, the merged tags are exactly 20.
C11_ExactlyTwenty ==
    \A v \in Videos : \A r \in db[v] :
        (/\ r.status = "completed"
         /\ Cardinality({Lower(n) : n \in HighLabels(r.detected_objects.labels)}) > TagLimit)
            => BagCardinality(r.tags) = TagLimit

\* C11 witness: 21 labels with 21 different lower-cased names were merged
\* into the tags of a video uploaded with duplicated and upper-case tags, and
\* 20 were kept, the upper-case tag among them.
C11_Witness ==
    \E v \in Videos : \E r \in db[v] :
        /\ r.status = "completed"
        /\ Cardinality({Lower(n) : n \in HighLabels(r.detected_objects.labels)}) > TagLimit
        /\ BagCardinality(r.tags) = TagLimit
        /\ lastRun[v] = "completed"
        /\ 1 \in BagToSet(r.tags)

\* the payloads staged by the re-check that completed a row, as the row
\* holds them
StagedPayloads(r) ==
    [ labels |-> r.detected_objects.labels,
      faces |-> r.detected_faces.val,
      moderation |-> r.moderation_labels.val,
      transcript |-> r.transcript.val,
      sentiment |-> r.sentiment_analysis.val,
      key_phrases |-> r.key_phrases.val,
      entities |-> r.entities.val ]

\* the rows a second run of the merge (lines 247-282) with the same payloads
\* may write over r
MergedAgain(r) ==
    {Complete(r, StagedPayloads(r), tags) :
        tags \in MergeTags(r.tags, AdditionalTags(r.detected_objects.labels))}

\* C12: the merge run a second time with the same payloads on the row the
\* first run wrote leaves every merged field as the first run left it.
C12_MergeIdempotent ==
    \A v \in Videos : \A r \in db[v] :
        (r.status = "completed" /\ lastRun[v] = "completed") => MergedAgain(r) = {r}

\* C13: the progress values notified for a video never decrease.
C13_ProgressNonDecreasing == \A v \in Videos : emitted[v].nondecreasing

\* C14: a row holds job handles only while its status is processing.
C14_HandlesOnlyWhileProcessing ==
    \A v \in Videos : \A r \in db[v] :
        r.detected_objects.type = "jobs" => r.status = "processing"

\* the text the transition table gives for the error message of the sweep
ShortTimeoutMessage == Message("", Exc("text", "Processing timeout", FALSE))

\* a row in processing whose start is more than two hours old
StuckTwoHours(r) == r.status = "processing" /\ r.processing_started_at = "old"

PollEnds(v) ==
    /\ \E i \in DOMAIN rechecks[v] : rechecks[v][i].pc = "running"
    /\ rechecks'[v] # rechecks[v]

\* the poll saw no exception and at least one job that is not done
StillPending(poll) ==
    /\ poll.label \in {"SUCCEEDED", "IN_PROGRESS", "FAILED"}
    /\ poll.face \in {"SUCCEEDED", "IN_PROGRESS", "FAILED", "ERROR"}
    /\ poll.moderation \in {"SUCCEEDED", "IN_PROGRESS", "FAILED", "ERROR"}
    /\ poll.transcription \in {"COMPLETED", "IN_PROGRESS", "FAILED"}
    /\ poll.nlp \in {"ok", "NOT_RUN"}
    /\ \/ poll.label # "SUCCEEDED"
       \/ poll.face = "IN_PROGRESS"
       \/ poll.moderation = "IN_PROGRESS"
       \/ poll.transcription # "COMPLETED"

\* C17 (as stated): the jobs of a video are polled at most 10 times: the
\* execution that polls, the first one counted, is never past the 10th.
C17_AtMostTenPollsOriginal ==
    \A v \in Videos : \A i \in DOMAIN rechecks[v] :
        rechecks[v][i].pc = "running" => rechecks[v][i].retries + 1 <= MaxRetries

\* C17 (amended): the jobs of a video are polled at most 11 times (the first
\* re-check and 10 retries), and a re-check that finds a job pending after
\* fewer than 10 retries schedules exactly one further re-check.
C17_AtMostElevenPolls ==
    [][\A v \in Videos : \A i \in DOMAIN rechecks[v] :
         (rechecks[v][i].pc = "running" /\ rechecks'[v] # rechecks[v]) =>
             /\ rechecks[v][i].retries + 1 <= MaxRetries + 1
             /\ (StillPending(lastPoll'[v]) /\ rechecks[v][i].retries < MaxRetries)
                    => lastRun'[v] = "retry"
             /\ IF lastRun'[v] = "retry"
                THEN /\ rechecks[v][i].retries < MaxRetries
                     /\ rechecks'[v] = <<NewRecheck(rechecks[v][i].retries + 1)>>
                ELSE rechecks'[v] = <<>>]_vars

\* C17 witness: the 11th poll found a job pending and nothing more is
\* scheduled for the video, which is still processing.
C17_Witness ==
    \E v \in Videos : \E r \in db[v] :
        /\ lastRun[v] = "exhausted"
        /\ StillPending(lastPoll[v])
        /\ rechecks[v] = <<>>
        /\ r.status = "processing"

\* C19: a re-check that starts when the row of its video is gone ends
\* without retry: no re-check of the video is left, and no row is created
\* or changed.
C19_MissingRowAborts ==
    [][\A v \in Videos :
         (/\ db[v] = {}
          /\ \E i \in DOMAIN rechecks[v] : rechecks[v][i].pc = "scheduled"
          /\ rechecks'[v] # rechecks[v])
             => (rechecks'[v] = <<>> /\ db' = db)]_vars

\* C19 witness: the video was started and its re-check scheduled, the row
\* was deleted, and the re-check ended finding no row.
C19_Witness ==
    \E v \in Videos :
        /\ lastRun[v] = "not_found"
        /\ emitted[v].progress >= 65
        /\ db[v] = {}
        /\ rechecks[v] = <<>>

\* the poll found every job done: succeeded, or failed in a tolerated way
AllStaged(poll) ==
    /\ poll.label = "SUCCEEDED"
    /\ poll.face \in {"SUCCEEDED", "FAILED", "ERROR"}
    /\ poll.moderation \in {"SUCCEEDED", "FAILED", "ERROR"}
    /\ poll.transcription = "COMPLETED"
    /\ poll.nlp \in {"ok", "NOT_RUN"}

\* C20: a re-check that finds no job pending writes the merged fields on the
\* row, sets its status to completed and notifies 100%, and no re-check of
\* the video is left.
C20_AllStagedCompletes ==
    [][\A v \in Videos :
         (PollEnds(v) /\ AllStaged(lastPoll'[v]) /\ db[v] # {}) =>
             /\ db'[v] # {}
             /\ \A r \in db'[v] :
                   /\ r.status = "completed"
                   /\ r.detected_objects.type = "labels"
                   /\ r.detected_faces.set /\ r.moderation_labels.set
                   /\ r.transcript.set /\ r.sentiment_analysis.set
                   /\ r.key_phrases.set /\ r.entities.set /\ r.categories.set
                   /\ BagCardinality(r.tags) <= TagLimit
             /\ sink = "up" =>
                   (emitted'[v].progress = 100 /\ "completed" \in emitted'[v].statuses)
             /\ rechecks'[v] = <<>>]_vars

\* C20 witness: a re-check that saw face detection failed and the poll of
\* content moderation raise has completed the video.
C20_Witness ==
    \E v \in Videos : \E r \in db[v] :
        /\ AllStaged(lastPoll[v])
        /\ lastPoll[v].face = "FAILED"
        /\ lastPoll[v].moderation = "ERROR"
        /\ lastRun[v] = "completed"
        /\ r.status = "completed"
        /\ emitted[v].progress = 100
        /\ rechecks[v] = <<>>

\* a task of video a (start or re-check, its failure handler included) runs
\* in this step
PipelineStep(a) == procTask[a] # "none" /\ <<procTask[a], rechecks[a]>>' # <<procTask[a], rechecks[a]>>

\* C18: a step of the pipeline of one video, ending in an error or not,
\* leaves the row, the tasks and the notifications of every other video as
\* they are.
C18_Isolation ==
    [][\A a \in Videos : \A b \in Videos \ {a} :
         PipelineStep(a) =>
             /\ db'[b] = db[b]
             /\ procTask'[b] = procTask[b]
             /\ rechecks'[b] = rechecks[b]
             /\ emitted'[b] = emitted[b]]_vars

\* C18 witness: the re-check of one video failed on a service error while
\* another video was processing, and the other video went on to completed.
C18_Witness ==
    \E a \in Videos : \E b \in Videos \ {a} : \E ra \in db[a] : \E rb \in db[b] :
        /\ lastRun[a] = "failed"
        /\ ra.status = "failed"
        /\ ra.error_message.prefix = "Analysis failed: "
        /\ lastRun[b] = "completed"
        /\ rb.status = "completed"
        /\ emitted[b].progress = 100

\* the row of v becomes completed in this step
BecomesCompleted(v) ==
    /\ \A r \in db[v] : r.status # "completed"
    /\ \E s \in db'[v] : s.status = "completed"

\* the poll found each of the four jobs succeeded, and the text analysed
AllSucceeded(poll) ==
    /\ poll.label = "SUCCEEDED"
    /\ poll.face = "SUCCEEDED"
    /\ poll.moderation = "SUCCEEDED"
    /\ poll.transcription = "COMPLETED"
    /\ poll.nlp \in {"ok", "NOT_RUN"}

C22_TagsFromHighLabels ==
    [][\A v \in Videos : \A r \in db[v] : \A s \in db'[v] :
         (r.status # "completed" /\ s.status = "completed") =>
             \A t \in BagToSet(s.tags) \ BagToSet(r.tags) :
                 /\ t % 2 = 0
                 /\ \E n \in DOMAIN s.detected_objects.labels :
                       /\ n \in {t, t + 1}
                       /\ s.detected_objects.labels[n] > 80]_vars

\* C22 witness: labels of confidence 90 (upper-case name), 80 and 75 were
\* merged into an empty tag list: the first gave its lower-case name, the
\* others gave nothing.
C22_Witness ==
    \E v \in Videos : \E r \in db[v] :
        /\ r.status = "completed"
        /\ r.detected_objects.labels = SmallLabels
        /\ BagToSet(r.tags) = {0, 6}

\* C23: after the merge the categories are the lower-cased types, each
\* once, of the entities of type PERSON, LOCATION or ORGANIZATION, and
\* nothing else.
C23_CategoriesFromEntities ==
    \A v \in Videos : \A r \in db[v] :
        r.status = "completed" =>
            LET types == {r.entities.val[i].type : i \in DOMAIN r.entities.val}
                expected == (IF "PERSON" \in types THEN {"person"} ELSE {})
                            \cup (IF "LOCATION" \in types THEN {"location"} ELSE {})
                            \cup (IF "ORGANIZATION" \in types THEN {"organization"} ELSE {})
            IN /\ r.categories.set
               /\ BagToSet(r.categories.val) = expected
               /\ \A c \in expected : CopiesIn(c, r.categories.val) = 1

\* C23 witness: two PERSON entities and a DATE entity gave the one category
\* person.
C23_Witness ==
    \E v \in Videos : \E r \in db[v] :
        /\ r.status = "completed"
        /\ r.entities = Val(<<Entity("PERSON"), Entity("PERSON"), Entity("DATE")>>)
        /\ r.categories = Val(SetToBag({"person"}))

\* C24: when the transcript is not empty each of the three text-analysis
\* calls gets its first 5000 characters (all of it if it is shorter), and
\* the transcript stored on completion is the whole text.
C24_ComprehendGetsFirst5000 ==
    \A v \in Videos :
        /\ lastPoll[v].nlp = "ok" =>
              LET first == IF lastPoll[v].transcript <= 5000
                           THEN lastPoll[v].transcript ELSE 5000
              IN lastPoll[v].nlpText = NlpTexts(first, first, first)
        /\ \A r \in db[v] :
              (lastRun[v] = "completed" /\ r.status = "completed")
                  => r.transcript = Val(lastPoll[v].transcript)

\* C24 witness: a transcript of 5001 characters was stored whole and the
\* three calls got 5000 characters.
C24_Witness ==
    \E v \in Videos : \E r \in db[v] :
        /\ r.status = "completed"
        /\ lastRun[v] = "completed"
        /\ r.transcript = Val(TextLimit + 1)
        /\ lastPoll[v].nlpText = NlpTexts(TextLimit, TextLimit, TextLimit)

\* C25: the start step finds its video in status uploaded and leaves it in
\* status processing with processing_started_at set and no error message.
C25_StartFromUploaded ==
    [][\A v \in Videos :
         (procTask[v] = "queued" /\ procTask'[v] # "queued" /\ db[v] # {}) =>
             /\ \A r \in db[v] : r.status = "uploaded"
             /\ db'[v] # {}
             /\ \A s \in db'[v] :
                   /\ s.status = "processing"
                   /\ s.processing_started_at # "NULL"
                   /\ s.error_message = NoMessage]_vars

\* C25 witness: the start step has run on an uploaded video and its jobs
\* are not submitted yet.
C25_Witness ==
    \E v \in Videos : \E r \in db[v] :
        /\ procTask[v] = "started"
        /\ lastRun[v] = "started"
        /\ r.status = "processing"
        /\ r.processing_started_at = "recent"
        /\ emitted[v].progress = 10

\* C26: a completed row has processing_completed_at set and no error
\* message; a failed row has processing_completed_at set and an error
\* message.
C26_TerminalRowsStamped ==
    \A v \in Videos : \A r \in db[v] :
        /\ r.status = "completed" =>
              (r.processing_completed_at = "set" /\ r.error_message = NoMessage)
        /\ r.status = "failed" =>
              (r.processing_completed_at = "set" /\ r.error_message # NoMessage)

\* C26 witness: a video failed by the sweep was completed by its re-check
\* afterwards; it has its completion time and no error message left.
C26_Witness ==
    \E v \in Videos : \E r \in db[v] :
        /\ r.status = "completed"
        /\ "failed" \in emitted[v].statuses
        /\ r.processing_completed_at = "set"
        /\ r.error_message = NoMessage

\* C27: an error raised inside a re-check makes the video failed whatever
\* its text, the word "retry" in it included.
C27_AnyErrorFails ==
    \A v \in Videos : \A r \in db[v] :
        (\/ lastPoll[v].label \in ErrorStatuses
         \/ lastPoll[v].transcription \in ErrorStatuses
         \/ lastPoll[v].nlp \in ErrorStatuses)
            => r.status = "failed"

\* C28: a re-check does not poll again a job its predecessor found
\* succeeded: it reads from the row only the handles of the jobs that were
\* still pending.
C28_SucceededNotPolledAgain ==
    [][\A v \in Videos : \A i \in DOMAIN rechecks[v] :
         (/\ rechecks[v][i].pc = "scheduled"
          /\ i \in DOMAIN rechecks'[v]
          /\ rechecks'[v][i].pc = "running") =>
             /\ lastPoll[v].label = "SUCCEEDED"
                   => "label_detection" \notin rechecks'[v][i].rekognition_jobs
             /\ lastPoll[v].face = "SUCCEEDED"
                   => "face_detection" \notin rechecks'[v][i].rekognition_jobs
             /\ lastPoll[v].moderation = "SUCCEEDED"
                   => "content_moderation" \notin rechecks'[v][i].rekognition_jobs
             /\ lastPoll[v].transcription = "COMPLETED"
                   => ~rechecks'[v][i].transcribe_job]_vars

\* C29: when one of the four submissions of the start step raises, the
\* video is failed with its completion time and the error text, and no
\* re-check of it is ever scheduled.
C29_SubmitFailureFails ==
    \A v \in Videos :
        lastRun[v] = "submit_failed" =>
            /\ rechecks[v] = <<>>
            /\ procTask[v] = "done"
            /\ \A r \in db[v] :
                  /\ r.status = "failed"
                  /\ r.processing_completed_at = "set"
                  /\ r.error_message.text.type = "ClientError"
                  /\ r.error_message.text.op \in Kinds
                  /\ r.detected_objects.type # "jobs"

\* C29 witness: the submission of the transcription raised after the three
\* others had returned; the video is failed and no re-check exists.
C29_Witness ==
    \E v \in Videos : \E r \in db[v] :
        /\ lastRun[v] = "submit_failed"
        /\ r.status = "failed"
        /\ r.error_message.text.op = "transcription"
        /\ emitted[v].progress = 45
        /\ rechecks[v] = <<>>

\* C30: a re-check exists only after the four handles are on the row, and
\* each execution of a re-check has read all four from it; the row keeps
\* them until it is completed or deleted.
C30_RecheckReadsAllHandles ==
    \A v \in Videos : \A i \in DOMAIN rechecks[v] :
        /\ \A r \in db[v] : r.status # "completed" => r.detected_objects.type = "jobs"
        /\ rechecks[v][i].pc = "running" =>
              /\ rechecks[v][i].rekognition_jobs =
                    {"label_detection", "face_detection", "content_moderation"}
              /\ rechecks[v][i].transcribe_job

\* C30 witness: the first re-check of a video runs with the four handles
\* while the row is processing.
C30_Witness ==
    \E v \in Videos : \E r \in db[v] :
        /\ Len(rechecks[v]) = 1
        /\ rechecks[v][1].pc = "running"
        /\ rechecks[v][1].retries = 0
        /\ rechecks[v][1].transcribe_job
        /\ Cardinality(rechecks[v][1].rekognition_jobs) = 3
        /\ r.status = "processing"

\* C31: a re-check that ends by requesting a retry leaves the row of its
\* video as it is: the status (processing) and every other column keep
\* their values, whether the retry is granted or the retries are used up.
C31_RetryLeavesRow ==
    [][\A v \in Videos :
         (PollEnds(v) /\ lastRun'[v] \in {"retry", "exhausted"}) =>
             /\ db'[v] = db[v]
             /\ \A r \in db[v] : r.status = "processing" =>
                   \A s \in db'[v] : s.status = "processing"]_vars

\* C31 witness: a re-check found transcription running and asked for a
\* retry; the row is processing, holds its handles and the tags of the
\* upload, and has no result yet.
C31_Witness ==
    \E v \in Videos : \E r \in db[v] :
        /\ lastRun[v] = "retry"
        /\ lastPoll[v].label = "SUCCEEDED"
        /\ lastPoll[v].transcription = "IN_PROGRESS"
        /\ r.status = "processing"
        /\ r.detected_objects = JobHandles
        /\ r.error_message = NoMessage
        /\ r.processing_completed_at = "NULL"
        /\ ~r.transcript.set /\ ~r.categories.set
        /\ BagCardinality(r.tags) = 3

\* the execution has read no handle from the row
NoHandles(task) == task.rekognition_jobs = {} /\ ~task.transcribe_job

\* C32: a re-check that read a row without job handles (a row a re-check
\* has completed already) completes the row: its status is completed, and
\* transcript, faces, moderation labels, sentiment, key phrases, entities,
\* detected objects and categories are overwritten with empty values.
C32_NoHandlesCompletesEmpty ==
    [][\A v \in Videos : \A i \in DOMAIN rechecks[v] :
         (/\ rechecks[v][i].pc = "running"
          /\ NoHandles(rechecks[v][i])
          /\ rechecks'[v] = RemoveAt(rechecks[v], i)
          /\ db[v] # {}) =>
             /\ db'[v] # {}
             /\ \A s \in db'[v] :
                   /\ s.status = "completed"
                   /\ s.transcript = Val(0)
                   /\ s.detected_faces = Val(<<>>)
                   /\ s.moderation_labels = Val(<<>>)
                   /\ s.sentiment_analysis = Val("")
                   /\ s.key_phrases = Val(<<>>)
                   /\ s.entities = Val(<<>>)
                   /\ s.detected_objects = LabelDict(NoLabels)
                   /\ s.categories = Val(EmptyBag)]_vars

\* C32 witness: a second delivery of the re-check ran on the completed row,
\* polled nothing and stored empty results over those of the first, whose
\* tags remain.
C32_Witness ==
    \E v \in Videos : \E r \in db[v] :
        /\ lastRun[v] = "completed"
        /\ lastPoll[v].label = "NOT_POLLED"
        /\ lastPoll[v].transcription = "NOT_POLLED"
        /\ r.status = "completed"
        /\ r.detected_objects = LabelDict(NoLabels)
        /\ r.detected_faces = Val(<<>>)
        /\ BagToSet(r.tags) = {0, 6}

\* C33: when the poll of face detection or of content moderation raises,
\* the re-check goes on as if that job had finished: it fails only on the
\* error of another call, it asks for a retry only when another job is not
\* done, and when nothing else is pending it completes the video with the
\* field of that kind stored empty.
C33_PollErrorTolerated ==
    [][\A v \in Videos :
         (/\ PollEnds(v)
          /\ db[v] # {}
          /\ lastPoll'[v].face = "ERROR" \/ lastPoll'[v].moderation = "ERROR") =>
             /\ lastRun'[v] \in {"failed", "reraised"} =>
                   \/ lastPoll'[v].transcription \in ErrorStatuses
                   \/ lastPoll'[v].nlp \in ErrorStatuses
             /\ lastRun'[v] \in {"retry", "exhausted"} =>
                   \/ lastPoll'[v].label # "SUCCEEDED"
                   \/ lastPoll'[v].face = "IN_PROGRESS"
                   \/ lastPoll'[v].moderation = "IN_PROGRESS"
                   \/ lastPoll'[v].transcription # "COMPLETED"
             /\ AllStaged(lastPoll'[v]) =>
                   /\ lastRun'[v] = "completed"
                   /\ \A s \in db'[v] :
                         /\ s.status = "completed"
                         /\ lastPoll'[v].face = "ERROR" => s.detected_faces = Val(<<>>)
                         /\ lastPoll'[v].moderation = "ERROR"
                               => s.moderation_labels = Val(<<>>)]_vars

\* C33 witness: both polls raised in the re-check that completed the video
\* with its labels and its transcript; faces and moderation labels are
\* empty lists.
C33_Witness ==
    \E v \in Videos : \E r \in db[v] :
        /\ lastRun[v] = "completed"
        /\ lastPoll[v].face = "ERROR"
        /\ lastPoll[v].moderation = "ERROR"
        /\ r.status = "completed"
        /\ r.detected_objects = LabelDict(SmallLabels)
        /\ r.transcript = Val(11)
        /\ r.detected_faces = Val(<<>>)
        /\ r.moderation_labels = Val(<<>>)

\* C34: while the transcription job answers FAILED at every poll no
\* re-check completes the video and its row is never completed; a video
\* that is processing ends failed (unless its row is deleted).
C34_FailedTranscriptionNeverCompletes ==
    /\ [](\A v \in Videos :
            /\ lastRun[v] # "completed"
            /\ \A r \in db[v] : r.status # "completed")
    /\ \A v \in Videos : Processing(v) ~> (\A r \in db[v] : r.status = "failed")

\* C34 witness: the last re-check found the three other jobs succeeded and
\* transcription FAILED, the retries were used up, and the sweep failed the
\* video.
C34_Witness ==
    \E v \in Videos : \E r \in db[v] :
        /\ lastRun[v] = "exhausted"
        /\ lastPoll[v].transcription = "FAILED"
        /\ lastPoll[v].label = "SUCCEEDED"
        /\ lastPoll[v].face = "SUCCEEDED"
        /\ lastPoll[v].moderation = "SUCCEEDED"
        /\ r.status = "failed"
        /\ r.error_message = TimeoutMessage

\* the tags of row r together with the lower-cased names of the labels of
\* confidence above the threshold
TagUnion(r, labels) == BagToSet(r.tags) \cup {Lower(n) : n \in HighLabels(labels)}

\* C35: when the tags of the row and the lower-cased names of the labels
\* above the threshold are at most 20 different values, the merged tags are
\* exactly these values, each once: no tag of the user and no such label is
\* dropped.
C35_SmallMergeKeepsAll ==
    [][\A v \in Videos : \A r \in db[v] : \A s \in db'[v] :
         (/\ PollEnds(v)
          /\ lastRun'[v] = "completed"
          /\ Cardinality(TagUnion(r, s.detected_objects.labels)) <= TagLimit) =>
             /\ BagToSet(s.tags) = TagUnion(r, s.detected_objects.labels)
             /\ \A t \in BagToSet(s.tags) : CopiesIn(t, s.tags) = 1]_vars

\* C35 witness: the tags "Dog", "dog", "dog" of the upload and labels of 18
\* different lower-cased names were merged into 19 tags, "Dog" and "dog"
\* among them.
C35_Witness ==
    \E v \in Videos : \E r \in db[v] :
        /\ lastRun[v] = "completed"
        /\ r.status = "completed"
        /\ r.detected_objects = LabelDict(MixedCaseLabels)
        /\ BagToSet(r.tags) = {1} \cup {Lower(n) : n \in DOMAIN MixedCaseLabels}
        /\ BagCardinality(r.tags) = MaxLabels - 2

\* row s is row r but for status, error_message and processing_completed_at
SameButOutcome(r, s) ==
    s = [r EXCEPT !.status = s.status,
                  !.error_message = s.error_message,
                  !.processing_completed_at = s.processing_completed_at]

\* C36: a re-check that ends in an error (of a poll, or of the analysis of
\* the text after the four jobs succeeded) changes nothing of the row but
\* status, error_message and processing_completed_at: tags, categories,
\* transcript and the other result columns keep their values.
C36_FailureWritesNoResults ==
    [][\A v \in Videos :
         (PollEnds(v) /\ lastRun'[v] \in {"failed", "reraised"}) =>
             /\ db[v] # {} => db'[v] # {}
             /\ \A r \in db[v] : \A s \in db'[v] : SameButOutcome(r, s)
             /\ lastRun'[v] = "failed" =>
                   \A s \in db'[v] :
                       /\ s.status = "failed"
                       /\ s.error_message.prefix = "Analysis failed: "
                       /\ s.processing_completed_at = "set"]_vars

\* C36 witness: the four jobs had succeeded and the analysis of the text
\* raised; the row is failed and has no transcript, no categories, the tags
\* of the upload and its job handles.
C36_Witness ==
    \E v \in Videos : \E r \in db[v] :
        /\ lastRun[v] = "failed"
        /\ AllSucceeded([lastPoll[v] EXCEPT !.nlp = "ok"])
        /\ lastPoll[v].nlp = "ERROR"
        /\ r.status = "failed"
        /\ r.error_message.text.op = "comprehend"
        /\ ~r.transcript.set /\ ~r.categories.set /\ ~r.detected_faces.set
        /\ r.detected_objects = JobHandles
        /\ BagCardinality(r.tags) = 3

\* the notification with status completed is published in this step
CompletedNotified(v) == PollEnds(v) /\ lastRun'[v] = "completed"

\* C37: the notification with status completed and progress 100 is
\* published by the step that has committed the row as completed with the
\* merged fields, never before, and at most once for a video: the step
\* that publishes it finds none published yet.
C37_CompletedNotifiedOnceAfterCommit ==
    [][\A v \in Videos :
         /\ ("completed" \in emitted'[v].statuses /\ emitted'[v] # emitted[v]) =>
               /\ CompletedNotified(v)
               /\ emitted'[v].progress = 100
               /\ db'[v] # {}
               /\ \A s \in db'[v] :
                     /\ s.status = "completed"
                     /\ s.processing_completed_at = "set"
                     /\ s.detected_objects.type = "labels"
                     /\ s.transcript.set /\ s.categories.set
         /\ CompletedNotified(v) =>
               /\ "completed" \notin emitted[v].statuses
               /\ "completed" \in emitted'[v].statuses]_vars

\* C37 witness: the one notification of completion of a video was
\* published after 10, 25, ..., 95, its row is completed and holds the
\* transcript, and no task of the video is left.
C37_Witness ==
    \E v \in Videos : \E r \in db[v] :
        /\ emitted[v].statuses = {"processing", "completed"}
        /\ emitted[v].progress = 100
        /\ emitted[v].nondecreasing
        /\ r.status = "completed"
        /\ r.transcript = Val(11)
        /\ procTask[v] = "done"
        /\ rechecks[v] = <<>>

\* C38: a run of the sweep leaves as it is every row that is not processing
\* and every processing row started within the last two hours; of a row it
\* fails it changes status, error_message and processing_completed_at and
\* nothing else; it creates and deletes no row.
C38_SweepFrame ==
    [][CleanupOldJobs =>
         \A v \in Videos :
             /\ db[v] = {} => db'[v] = {}
             /\ \A r \in db[v] :
                   IF StuckTwoHours(r)
                   THEN /\ db'[v] # {}
                        /\ \A s \in db'[v] : SameButOutcome(r, s)
                   ELSE db'[v] = {r}]_vars

\* C38 witness: one video was failed by the sweep and still holds its job
\* handles and no result, while another one, started later, is processing
\* with its re-check waiting for a retry.
C38_Witness ==
    \E a \in Videos : \E b \in Videos \ {a} : \E ra \in db[a] : \E rb \in db[b] :
        /\ ra.status = "failed"
        /\ ra.error_message = TimeoutMessage
        /\ ra.detected_objects = JobHandles
        /\ ~ra.transcript.set
        /\ rb.status = "processing"
        /\ rb.processing_started_at = "recent"
        /\ rb.error_message = NoMessage
        /\ lastRun[b] = "retry"

====
